---- MODULE Spec2Model ----
(***************************************************************************)
(* Model of the syscall-util crate: the seven x86-64 `syscall` entry      *)
(* points of src/arch/x86_64/call.rs, the conversion of the raw value of  *)
(* rax into Result<usize, usize>, and the Errno table of src/errno.rs.    *)
(*                                                                         *)
(* Machine words are WordBits wide (the crate's words are 64 bits wide;   *)
(* the width is scaled down so that every raw return value can be         *)
(* enumerated).  Only the raw return value is ever computed with, so only *)
(* it is confined to that width; argument words are carried verbatim.     *)
(***************************************************************************)
EXTENDS Integers, Sequences, FiniteSets, TLC

\* ------------------------------------------------------------------ bounds
WordBits == 9
BufLen == 2
MaxOpenFiles == 1
NumThreads == 2

\* ------------------------------------------------------------ machine words
Modulus == 2 ^ WordBits
UsizeMax == Modulus - 1
IsizeMin == -(2 ^ (WordBits - 1))
IsizeMax == (2 ^ (WordBits - 1)) - 1
Isize == IsizeMin .. IsizeMax

\* `x as usize`: the two's-complement bit pattern of a signed word
AsUsize(x) == x % Modulus

\* `x as isize`: a bit pattern read back as a signed word
AsIsize(w) == ((w + 2 ^ (WordBits - 1)) % Modulus) - 2 ^ (WordBits - 1)

\* ---------------------------------------------------------------- errno.rs
\* mutant: ERANGE given the code of its successor EDEADLK
ErrnoBase_erange_35 ==
  [ EPERM |-> 1, ENOENT |-> 2, ESRCH |-> 3, EINTR |-> 4, EIO |-> 5,
    ENXIO |-> 6, E2BIG |-> 7, ENOEXEC |-> 8, EBADF |-> 9, ECHILD |-> 10,
    EAGAIN |-> 11, ENOMEM |-> 12, EACCES |-> 13, EFAULT |-> 14,
    ENOTBLK |-> 15, EBUSY |-> 16, EEXIST |-> 17, EXDEV |-> 18,
    ENODEV |-> 19, ENOTDIR |-> 20, EISDIR |-> 21, EINVAL |-> 22,
    ENFILE |-> 23, EMFILE |-> 24, ENOTTY |-> 25, ETXTBSY |-> 26,
    EFBIG |-> 27, ENOSPC |-> 28, ESPIPE |-> 29, EROFS |-> 30,
    EMLINK |-> 31, EPIPE |-> 32, EDOM |-> 33, ERANGE |-> 35 ]

\* enum Errno, 'include/uapi/asm-generic/errno-base.h' part: member |-> code
ErrnoBase ==
  [ EPERM |-> 1, ENOENT |-> 2, ESRCH |-> 3, EINTR |-> 4, EIO |-> 5,
    ENXIO |-> 6, E2BIG |-> 7, ENOEXEC |-> 8, EBADF |-> 9, ECHILD |-> 10,
    EAGAIN |-> 11, ENOMEM |-> 12, EACCES |-> 13, EFAULT |-> 14,
    ENOTBLK |-> 15, EBUSY |-> 16, EEXIST |-> 17, EXDEV |-> 18,
    ENODEV |-> 19, ENOTDIR |-> 20, EISDIR |-> 21, EINVAL |-> 22,
    ENFILE |-> 23, EMFILE |-> 24, ENOTTY |-> 25, ETXTBSY |-> 26,
    EFBIG |-> 27, ENOSPC |-> 28, ESPIPE |-> 29, EROFS |-> 30,
    EMLINK |-> 31, EPIPE |-> 32, EDOM |-> 33, ERANGE |-> 34 ]

\* enum Errno, 'include/uapi/asm-generic/errno.h' part: member |-> code
ErrnoExt ==
  [ EDEADLK |-> 35, ENAMETOOLONG |-> 36, ENOLCK |-> 37, ENOSYS |-> 38,
    ENOTEMPTY |-> 39, ELOOP |-> 40,
    ENOMSG |-> 42, EIDRM |-> 43, ECHRNG |-> 44, EL2NSYNC |-> 45,
    EL3HLT |-> 46, EL3RST |-> 47, ELNRNG |-> 48, EUNATCH |-> 49,
    ENOCSI |-> 50, EL2HLT |-> 51, EBADE |-> 52, EBADR |-> 53,
    EXFULL |-> 54, ENOANO |-> 55, EBADRQC |-> 56, EBADSLT |-> 57,
    EBFONT |-> 59, ENOSTR |-> 60, ENODATA |-> 61, ETIME |-> 62,
    ENOSR |-> 63, ENONET |-> 64, ENOPKG |-> 65, EREMOTE |-> 66,
    ENOLINK |-> 67, EADV |-> 68, ESRMNT |-> 69, ECOMM |-> 70,
    EPROTO |-> 71, EMULTIHOP |-> 72, EDOTDOT |-> 73, EBADMSG |-> 74,
    EOVERFLOW |-> 75, ENOTUNIQ |-> 76, EBADFD |-> 77, EREMCHG |-> 78,
    ELIBACC |-> 79, ELIBBAD |-> 80, ELIBSCN |-> 81, ELIBMAX |-> 82,
    ELIBEXEC |-> 83, EILSEQ |-> 84, ERESTART |-> 85, ESTRPIPE |-> 86,
    EUSERS |-> 87, ENOTSOCK |-> 88, EDESTADDRREQ |-> 89, EMSGSIZE |-> 90,
    EPROTOTYPE |-> 91, ENOPROTOOPT |-> 92, EPROTONOSUPPORT |-> 93,
    ESOCKTNOSUPPORT |-> 94, EOPNOTSUPP |-> 95, EPFNOSUPPORT |-> 96,
    EAFNOSUPPORT |-> 97, EADDRINUSE |-> 98, EADDRNOTAVAIL |-> 99,
    ENETDOWN |-> 100, ENETUNREACH |-> 101, ENETRESET |-> 102,
    ECONNABORTED |-> 103, ECONNRESET |-> 104, ENOBUFS |-> 105,
    EISCONN |-> 106, ENOTCONN |-> 107, ESHUTDOWN |-> 108,
    ETOOMANYREFS |-> 109, ETIMEDOUT |-> 110, ECONNREFUSED |-> 111,
    EHOSTDOWN |-> 112, EHOSTUNREACH |-> 113, EALREADY |-> 114,
    EINPROGRESS |-> 115, ESTALE |-> 116, EUCLEAN |-> 117, ENOTNAM |-> 118,
    ENAVAIL |-> 119, EISNAM |-> 120, EREMOTEIO |-> 121, EDQUOT |-> 122,
    ENOMEDIUM |-> 123, EMEDIUMTYPE |-> 124, ECANCELED |-> 125,
    ENOKEY |-> 126, EKEYEXPIRED |-> 127, EKEYREVOKED |-> 128,
    EKEYREJECTED |-> 129, EOWNERDEAD |-> 130, ENOTRECOVERABLE |-> 131,
    ERFKILL |-> 132, EHWPOISON |-> 133 ]

\* enum Errno with #[repr(u32)]: Errno[m] is `Errno::m as usize`; a value of
\* the enumeration is its member name, compared by the derived PartialEq
Errno == ErrnoBase @@ ErrnoExt

\* pub const EWOULDBLOCK: Errno = Errno::EAGAIN;
EWOULDBLOCK == "EAGAIN"

\* mutant: the alias bound to the member written just above it in the table
EDEADLOCK_is_EBADSLT == "EBADSLT"

\* pub const EDEADLOCK: Errno = Errno::EDEADLK;
EDEADLOCK == "EDEADLK"

\* ------------------------------------------------------------------ lib.rs
\* SysCallNum::read, ::open, ::close, ::getpid (`as usize`), x86-64 numbers
SYS_read == 0
SYS_open == 2
SYS_close == 3
SYS_getpid == 39

\* the numbers the modelled kernel implements
Implemented == {SYS_read, SYS_open, SYS_close, SYS_getpid}

\* const O_RDONLY: u32 = 0x0; const O_CLOEXEC: u32 = 0x80000;
O_RDONLY == 0
O_CLOEXEC == 524288

\* let flags = O_RDONLY | O_CLOEXEC;  (the two have no bit in common)
flags == O_RDONLY + O_CLOEXEC

\* b"/dev/zero\0".as_ptr(), b"/this/file/should/not/exist\0".as_ptr() and
\* buffer.as_mut_ptr(), as usize: three distinct addresses
file_path_dev_zero == 4096
file_path_not_exist == 8192
buffer_ptr == 12288

\* let mut buffer = [2u8, 3, 5, 7, 11, 13, 17, 19];  (its first BufLen bytes)
InitialBuffer == SubSeq(<<2, 3, 5, 7, 11, 13, 17, 19>>, 1, BufLen)

\* the process id `getpid` reports (pid > 0) and the first descriptor `open`
\* hands out (fd > 0; 0, 1 and 2 are the standard streams)
Pid == 1
FirstFd == 3

\* -------------------------------------------------------------------- state
VARIABLES
  kernel,   \* "linux": the kernel the tests run on; "opaque": any raw value
  fds,      \* kernel: the descriptors open in the calling process
  buffer,   \* caller: the bytes of `buffer`
  pc,       \* "idle", "returned" (an entry point returned) or "panicked"
  call,     \* the last invocation: entry point, num, args, asm! operands
  entry,    \* the register file when `syscall` executed
  exit,     \* the register file when the kernel returned
  raw,      \* the signed value the kernel returned
  result,   \* what the entry point returned: Ok(v), Err(c), or a panic
  transitions, \* the `syscall` instructions the invocation has executed
  cur,      \* the thread that is running
  suspended \* the threads that are not: thread |-> its saved context

vars == <<kernel, fds, buffer, pc, call, entry, exit, raw, result,
          transitions, cur, suspended>>

\* the threads of the calling process
Threads == 1 .. NumThreads

\* ------------------------------------------------------------------ call.rs
\* the registers the convention of call.rs names
Registers == {"rax", "rdi", "rsi", "rdx", "r10", "r8", "r9", "rcx", "r11"}

\* the table of the header comment: the register of the 1st .. 6th argument
ArgRegisters == <<"rdi", "rsi", "rdx", "r10", "r8", "r9">>

\* Result<usize, usize>, and the unwinding of an arithmetic-overflow panic
Ok(v) == [tag |-> "Ok", val |-> v]
Err(c) == [tag |-> "Err", val |-> c]
Panic == [tag |-> "Panic", val |-> 0]

\* mutant: the branch taken for `raw_code <= 0`
convert_zero_is_failure(raw_code) ==
  IF raw_code <= 0
  THEN IF -raw_code > IsizeMax
       THEN {Panic, Err(AsUsize(AsIsize(-raw_code)))}
       ELSE {Err(AsUsize(-raw_code))}
  ELSE {Ok(AsUsize(raw_code))}

\* mutant: the failure code cast without the negation
convert_without_negation(raw_code) ==
  IF raw_code < 0
  THEN {Err(AsUsize(raw_code))}
  ELSE {Ok(AsUsize(raw_code))}

\* fn convert_raw_return_code_from_rax(raw_code: isize) -> Result<usize, usize>
\* The set of outcomes: `-raw_code` overflows for isize::MIN, which panics
\* when the build checks overflow (debug profile) and wraps when it does not.
convert_raw_return_code_from_rax(raw_code) ==
  IF raw_code < 0
  THEN IF -raw_code > IsizeMax
       THEN {Panic, Err(AsUsize(AsIsize(-raw_code)))}
       ELSE {Err(AsUsize(-raw_code))}
  ELSE {Ok(AsUsize(raw_code))}

\* ------------------------------------------------------------------- kernel
Ret(r) == [raw |-> r, fds |-> fds, buffer |-> buffer]

\* getpid: Ok(pid) with pid > 0
sys_getpid == {Ret(Pid)}

LowestFreeFd ==
  CHOOSE fd \in FirstFd .. (FirstFd + MaxOpenFiles) :
    fd \notin fds /\ \A g \in FirstFd .. (fd - 1) : g \in fds

\* open(path, flags): a descriptor for "/dev/zero", -ENOENT for the path that
\* does not exist, -EFAULT for a word that is no path; flags the tests do
\* not use may also be refused.  No more than MaxOpenFiles are opened.
sys_open(path, oflags) ==
  IF path = file_path_not_exist THEN {Ret(-Errno.ENOENT)}
  ELSE IF path # file_path_dev_zero THEN {Ret(-Errno.EFAULT)}
  ELSE IF Cardinality(fds) >= MaxOpenFiles THEN {}
  ELSE {[raw |-> LowestFreeFd, fds |-> fds \cup {LowestFreeFd},
         buffer |-> buffer]}
       \cup (IF oflags \in {O_RDONLY, flags} THEN {}
             ELSE {Ret(-Errno.EINVAL)})

\* read(fd, buf, count) on "/dev/zero": count zero bytes stored at buf
sys_read(fd, buf, count) ==
  IF fd \notin fds THEN {Ret(-Errno.EBADF)}
  ELSE IF count = 0 THEN {Ret(0)}
  ELSE IF buf # buffer_ptr THEN {Ret(-Errno.EFAULT)}
  ELSE {[raw |-> count, fds |-> fds,
         buffer |-> [i \in 1 .. BufLen |->
                       IF i <= count THEN 0 ELSE buffer[i]]]}

\* close(fd)
sys_close(fd) ==
  IF fd \notin fds THEN {Ret(-Errno.EBADF)}
  ELSE {[raw |-> 0, fds |-> fds \ {fd}, buffer |-> buffer]}

\* "arch syscall entry code will return -ENOSYS if users try to call a
\* syscall that doesn't exist"
sys_ni_syscall == {Ret(-Errno.ENOSYS)}

\* what the kernel does with the registers it is entered with
KernelTransition(regs) ==
  IF kernel = "opaque" THEN {Ret(r) : r \in Isize}
  ELSE CASE regs.rax = SYS_getpid -> sys_getpid
         [] regs.rax = SYS_open -> sys_open(regs.rdi, regs.rsi)
         [] regs.rax = SYS_read -> sys_read(regs.rdi, regs.rsi, regs.rdx)
         [] regs.rax = SYS_close -> sys_close(regs.rdi)
         [] OTHER -> sys_ni_syscall

\* the caller's obligation (the entry points are `unsafe fn`): memory handed
\* to the kernel is valid for the access, here `count` bytes of `buffer`
Precondition(regs) ==
  (/\ kernel = "linux"
   /\ regs.rax = SYS_read
   /\ regs.rdi \in fds
   /\ regs.rsi = buffer_ptr) => regs.rdx <= BufLen

\* values a register the asm! block does not bind may hold
JunkWords == {0, UsizeMax}

\* the `rip` and `rflags` the `syscall` instruction stores in rcx and r11
SavedState == {[rip |-> UsizeMax - 2, rflags |-> 2],
               [rip |-> UsizeMax - 1, rflags |-> 6]}

\* "the old values of `rcx` and `r11` would not be restored": the registers
\* the transition overwrites besides rax
KernelClobbers == {"rcx", "r11"}

\* asm!("syscall", in(..) .., out(..) _, lateout(..) result, ..) followed by
\* convert_raw_return_code_from_rax(result): `ins` binds registers to
\* operands, `outs` are the discarded outputs, `lateout` holds the result.
\* A register the kernel overwrites and the block does not declare is one
\* the compiler may still take a live value from, here `result`.
asm_syscall(num, args, ins, outs, lateout) ==
  /\ pc = "idle"
  /\ \E junk \in JunkWords, saved \in SavedState :
       LET atEntry == [r \in Registers |->
                         IF r \in DOMAIN ins THEN ins[r] ELSE junk]
       IN /\ Precondition(atEntry)
          /\ \E k \in KernelTransition(atEntry) :
               LET atExit == [atEntry EXCEPT !["rcx"] = saved.rip,
                                             !["r11"] = saved.rflags,
                                             !["rax"] = AsUsize(k.raw)]
               IN /\ entry' = atEntry
                  /\ exit' = atExit
                  /\ raw' = k.raw
                  /\ fds' = k.fds
                  /\ buffer' = k.buffer
                  /\ \E src \in {lateout} \cup (KernelClobbers \ outs) :
                     \E res \in convert_raw_return_code_from_rax(
                                  AsIsize(atExit[src])) :
                       /\ result' = res
                       /\ pc' = IF res.tag = "Panic" THEN "panicked"
                                ELSE "returned"
  /\ call' = [arity |-> Len(args), num |-> num, args |-> args,
              ins |-> DOMAIN ins, outs |-> outs, lateout |-> lateout]
  /\ transitions' = transitions + 1
  /\ UNCHANGED <<kernel, cur, suspended>>

\* pub unsafe fn syscall_without_args(num: usize) -> Result<usize, usize>
syscall_without_args(num) ==
  asm_syscall(num, <<>>, [rax |-> num], {"rcx", "r11"}, "rax")

\* mutant: `out("rcx") _` left out
syscall_with_1_arg_rcx_undeclared(num, arg1) ==
  asm_syscall(num, <<arg1>>, [rax |-> num, rdi |-> arg1], {"r11"}, "rax")

\* pub unsafe fn syscall_with_1_arg(num, arg1)
syscall_with_1_arg(num, arg1) ==
  asm_syscall(num, <<arg1>>, [rax |-> num, rdi |-> arg1],
              {"rcx", "r11"}, "rax")

\* mutant: the two arguments in each other's register
syscall_with_2_args_swapped(num, arg1, arg2) ==
  asm_syscall(num, <<arg1, arg2>>,
              [rax |-> num, rdi |-> arg2, rsi |-> arg1],
              {"rcx", "r11"}, "rax")

\* pub unsafe fn syscall_with_2_args(num, arg1, arg2)
syscall_with_2_args(num, arg1, arg2) ==
  asm_syscall(num, <<arg1, arg2>>,
              [rax |-> num, rdi |-> arg1, rsi |-> arg2],
              {"rcx", "r11"}, "rax")

\* mutant: the second and third argument in each other's register
syscall_with_3_args_swapped(num, arg1, arg2, arg3) ==
  asm_syscall(num, <<arg1, arg2, arg3>>,
              [rax |-> num, rdi |-> arg1, rsi |-> arg3, rdx |-> arg2],
              {"rcx", "r11"}, "rax")

\* pub unsafe fn syscall_with_3_args(num, arg1, arg2, arg3)
syscall_with_3_args(num, arg1, arg2, arg3) ==
  asm_syscall(num, <<arg1, arg2, arg3>>,
              [rax |-> num, rdi |-> arg1, rsi |-> arg2, rdx |-> arg3],
              {"rcx", "r11"}, "rax")

\* mutant: the fourth argument in rcx, as for a function call
syscall_with_4_args_in_rcx(num, arg1, arg2, arg3, arg4) ==
  asm_syscall(num, <<arg1, arg2, arg3, arg4>>,
              [rax |-> num, rdi |-> arg1, rsi |-> arg2, rdx |-> arg3,
               rcx |-> arg4],
              {"r11"}, "rax")

\* pub unsafe fn syscall_with_4_args(num, arg1, arg2, arg3, arg4)
syscall_with_4_args(num, arg1, arg2, arg3, arg4) ==
  asm_syscall(num, <<arg1, arg2, arg3, arg4>>,
              [rax |-> num, rdi |-> arg1, rsi |-> arg2, rdx |-> arg3,
               r10 |-> arg4],
              {"rcx", "r11"}, "rax")

\* pub unsafe fn syscall_with_5_args(num, arg1, arg2, arg3, arg4, arg5)
syscall_with_5_args(num, arg1, arg2, arg3, arg4, arg5) ==
  asm_syscall(num, <<arg1, arg2, arg3, arg4, arg5>>,
              [rax |-> num, rdi |-> arg1, rsi |-> arg2, rdx |-> arg3,
               r10 |-> arg4, r8 |-> arg5],
              {"rcx", "r11"}, "rax")

\* pub unsafe fn syscall_with_6_args(num, arg1, arg2, arg3, arg4, arg5, arg6)
syscall_with_6_args(num, arg1, arg2, arg3, arg4, arg5, arg6) ==
  asm_syscall(num, <<arg1, arg2, arg3, arg4, arg5, arg6>>,
              [rax |-> num, rdi |-> arg1, rsi |-> arg2, rdx |-> arg3,
               r10 |-> arg4, r8 |-> arg5, r9 |-> arg6],
              {"rcx", "r11"}, "rax")

\* the caller (re)initialises `buffer` before a scenario
FillBuffer ==
  /\ pc = "idle"
  /\ buffer # InitialBuffer
  /\ buffer' = InitialBuffer
  /\ UNCHANGED <<kernel, fds, pc, call, entry, exit, raw, result,
                 transitions, cur, suspended>>

\* ------------------------------------------------------------ specification
NoCall == [arity |-> 0, num |-> 0, args |-> <<>>, ins |-> {}, outs |-> {},
           lateout |-> "rax"]
NoRegs == [r \in Registers |-> 0]

\* what belongs to one thread: its registers and the locals of the entry
\* point it is in; the running thread's are the variables themselves
Context ==
  [pc |-> pc, call |-> call, entry |-> entry, exit |-> exit, raw |-> raw,
   result |-> result, transitions |-> transitions]

\* the context of a thread that is in no entry point
IdleContext ==
  [pc |-> "idle", call |-> NoCall, entry |-> NoRegs, exit |-> NoRegs,
   raw |-> 0, result |-> Ok(0), transitions |-> 0]

\* the context of thread t, running or not
ContextOf(t) == IF t = cur THEN Context ELSE suspended[t]

\* the running thread is suspended with its context saved and thread t
\* resumes with its own
Switch(t) ==
  /\ t # cur
  /\ cur' = t
  /\ suspended' = [suspended EXCEPT ![cur] = Context, ![t] = IdleContext]
  /\ pc' = suspended[t].pc
  /\ call' = suspended[t].call
  /\ entry' = suspended[t].entry
  /\ exit' = suspended[t].exit
  /\ raw' = suspended[t].raw
  /\ result' = suspended[t].result
  /\ transitions' = suspended[t].transitions
  /\ UNCHANGED <<kernel, fds, buffer>>

\* An entry point taken one instruction group at a time, so that another
\* thread can run between any two of them: the `in` operands are loaded,
\* the `syscall` instruction executes, the `lateout` operand is converted.

\* the registers the asm! block binds receive the number and the arguments
load_operands(num, args, ins, outs, lateout) ==
  /\ pc = "idle"
  /\ \E junk \in JunkWords :
       entry' = [r \in Registers |-> IF r \in DOMAIN ins THEN ins[r] ELSE junk]
  /\ call' = [arity |-> Len(args), num |-> num, args |-> args,
              ins |-> DOMAIN ins, outs |-> outs, lateout |-> lateout]
  /\ pc' = "loaded"
  /\ UNCHANGED <<kernel, fds, buffer, exit, raw, result, transitions, cur,
                 suspended>>

\* the same instruction with the output operand kept in one cell all threads
\* share instead of the calling thread's own register and local
syscall_instruction_shared_result ==
  /\ pc = "loaded"
  /\ Precondition(entry)
  /\ \E saved \in SavedState, k \in KernelTransition(entry) :
       /\ exit' = [entry EXCEPT !["rcx"] = saved.rip,
                                !["r11"] = saved.rflags,
                                !["rax"] = AsUsize(k.raw)]
       /\ raw' = k.raw
       /\ fds' = k.fds
       /\ buffer' = k.buffer
       /\ suspended' = [t \in Threads |->
            [suspended[t] EXCEPT !.exit = [@ EXCEPT !["rax"] = AsUsize(k.raw)]]]
  /\ transitions' = transitions + 1
  /\ pc' = "trapped"
  /\ UNCHANGED <<kernel, call, entry, result, cur>>

\* the `syscall` instruction: the one kernel transition of the invocation
syscall_instruction ==
  /\ pc = "loaded"
  /\ Precondition(entry)
  /\ \E saved \in SavedState, k \in KernelTransition(entry) :
       /\ exit' = [entry EXCEPT !["rcx"] = saved.rip,
                                !["r11"] = saved.rflags,
                                !["rax"] = AsUsize(k.raw)]
       /\ raw' = k.raw
       /\ fds' = k.fds
       /\ buffer' = k.buffer
  /\ transitions' = transitions + 1
  /\ pc' = "trapped"
  /\ UNCHANGED <<kernel, call, entry, result, cur, suspended>>

\* `convert_raw_return_code_from_rax(result)`, the entry point's last line
convert_and_return ==
  /\ pc = "trapped"
  /\ \E src \in {call.lateout} \cup (KernelClobbers \ call.outs) :
     \E res \in convert_raw_return_code_from_rax(AsIsize(exit[src])) :
       /\ result' = res
       /\ pc' = IF res.tag = "Panic" THEN "panicked" ELSE "returned"
  /\ UNCHANGED <<kernel, fds, buffer, call, entry, exit, raw, transitions,
                 cur, suspended>>

InitWith(k) ==
  /\ kernel = k
  /\ fds = {}
  /\ buffer = InitialBuffer
  /\ pc = "idle"
  /\ call = NoCall
  /\ entry = NoRegs
  /\ exit = NoRegs
  /\ raw = 0
  /\ result = Ok(0)
  /\ transitions = 0
  /\ cur = 1
  /\ suspended = [t \in Threads |-> IdleContext]

\* the inputs the callers of the model pass
Nums == Implemented \cup {335, UsizeMax}
Arg1 == {file_path_dev_zero, file_path_not_exist}
          \cup (FirstFd .. (FirstFd + MaxOpenFiles))
Arg2 == {O_RDONLY, flags, buffer_ptr}
Arg3 == 0 .. BufLen
Arg4 == {4}
Arg5 == {5}
Arg6 == {6}

\* the caller takes the Result (`result0.unwrap()`, `matches!(result1, ..)`):
\* the value does not outlive the call that produced it
TakeResult ==
  /\ pc = "returned"
  /\ pc' = "idle"
  /\ call' = NoCall
  /\ entry' = NoRegs
  /\ exit' = NoRegs
  /\ raw' = 0
  /\ result' = Ok(0)
  /\ transitions' = 0
  /\ UNCHANGED <<kernel, fds, buffer, cur, suspended>>

Init == InitWith("linux")

Next ==
  \/ \E num \in Nums : syscall_without_args(num)
  \/ \E num \in Nums, arg1 \in Arg1 : syscall_with_1_arg(num, arg1)
  \/ \E num \in Nums, arg1 \in Arg1, arg2 \in Arg2 :
       syscall_with_2_args(num, arg1, arg2)
  \/ \E num \in Nums, arg1 \in Arg1, arg2 \in Arg2, arg3 \in Arg3 :
       syscall_with_3_args(num, arg1, arg2, arg3)
  \/ \E num \in Nums, arg1 \in Arg1, arg2 \in Arg2, arg3 \in Arg3,
        arg4 \in Arg4 :
       syscall_with_4_args(num, arg1, arg2, arg3, arg4)
  \/ \E num \in Nums, arg1 \in Arg1, arg2 \in Arg2, arg3 \in Arg3,
        arg4 \in Arg4, arg5 \in Arg5 :
       syscall_with_5_args(num, arg1, arg2, arg3, arg4, arg5)
  \/ \E num \in Nums, arg1 \in Arg1, arg2 \in Arg2, arg3 \in Arg3,
        arg4 \in Arg4, arg5 \in Arg5, arg6 \in Arg6 :
       syscall_with_6_args(num, arg1, arg2, arg3, arg4, arg5, arg6)
  \/ FillBuffer
  \/ TakeResult

Spec == Init /\ [][Next]_vars

\* the same entry points over a kernel that may leave any value in rax
InitOpaque == InitWith("opaque")

NextOpaque ==
  \/ \E num \in {SYS_getpid} : syscall_without_args(num)
  \/ \E num \in {SYS_getpid} : syscall_with_1_arg(num, 1)
  \/ \E num \in {SYS_getpid} : syscall_with_2_args(num, 1, 2)
  \/ \E num \in {SYS_getpid} : syscall_with_3_args(num, 1, 2, 3)
  \/ \E num \in {SYS_getpid} : syscall_with_4_args(num, 1, 2, 3, 4)
  \/ \E num \in {SYS_getpid} : syscall_with_5_args(num, 1, 2, 3, 4, 5)
  \/ \E num \in {SYS_getpid} : syscall_with_6_args(num, 1, 2, 3, 4, 5, 6)
  \/ TakeResult

SpecOpaque == InitOpaque /\ [][NextOpaque]_vars

\* several threads of one process calling the entry points, each suspended
\* and resumed at any point between its steps
InitThreads == InitWith("linux")

\* the calls the threads make, each with the `in` operands of its entry
\* point: getpid() through syscall_without_args, close(fd) through
\* syscall_with_1_arg, open("/dev/zero", O_RDONLY) through
\* syscall_with_2_args
ThreadCalls ==
  {[num |-> num, args |-> <<>>, ins |-> [rax |-> num]] :
     num \in {SYS_getpid}}
  \cup {[num |-> SYS_close, args |-> <<arg1>>,
         ins |-> [rax |-> SYS_close, rdi |-> arg1]] : arg1 \in {FirstFd}}
  \cup {[num |-> SYS_open, args |-> <<arg1, O_RDONLY>>,
         ins |-> [rax |-> SYS_open, rdi |-> arg1, rsi |-> O_RDONLY]] :
          arg1 \in {file_path_dev_zero}}

NextThreads ==
  \/ \E c \in ThreadCalls :
       load_operands(c.num, c.args, c.ins, {"rcx", "r11"}, "rax")
  \/ syscall_instruction
  \/ convert_and_return
  \/ TakeResult
  \/ \E t \in Threads : Switch(t)

SpecThreads == InitThreads /\ [][NextThreads]_vars

\* ------------------------------------------------------------------- claims

\* C1: for every raw return value r >= 0 (0 and the largest signed value
\* included) the entry point returns Ok(p) with p = r, never a failure.
C1_NonNegativeIsOk ==
  (pc # "idle" /\ raw >= 0) =>
    (result.tag = "Ok" /\ result.val = raw /\ result.val <= UsizeMax)

C1_Witness ==
  pc = "returned" /\ raw = IsizeMax /\ result.tag = "Ok"
    /\ result.val = IsizeMax

\* C2: for every raw return value r < 0 (the most negative one included) the
\* entry point returns Err(c) with c = -r, never a success and nothing else.
C2_NegativeIsErr ==
  (pc # "idle" /\ raw < 0) => (result.tag = "Err" /\ result.val = -raw)

\* C3: for every arity, rax carries the number and the i-th register of
\* rdi, rsi, rdx, r10, r8, r9 carries argument i when the kernel is entered;
\* rcx is bound to no argument, and the result is what rax holds on return.
C3_ArgumentRegisters ==
  pc # "idle" =>
    /\ call.arity \in 0 .. 6
    /\ entry["rax"] = call.num
    /\ \A i \in 1 .. call.arity : entry[ArgRegisters[i]] = call.args[i]
    /\ call.ins = {"rax"} \cup {ArgRegisters[i] : i \in 1 .. call.arity}
    /\ "rcx" \notin call.ins
    /\ call.lateout = "rax"
    /\ (result.tag = "Ok" => result.val = exit["rax"])
    /\ (result.tag = "Err" => result.val = Modulus - exit["rax"])

C3_Witness ==
  /\ pc = "returned"
  /\ call.arity = 6
  /\ entry["r10"] = call.args[4]
  /\ entry["rcx"] # call.args[4]
  /\ result.tag = "Err"

\* C4: every entry point declares rcx and r11 as discarded outputs, binds
\* neither as an input and reads neither; the result is decided by the raw
\* value alone, whatever the kernel left in rcx and r11.
C4_ClobbersNeverRead ==
  pc # "idle" =>
    /\ call.outs = {"rcx", "r11"}
    /\ call.ins \cap {"rcx", "r11"} = {}
    /\ call.lateout \notin {"rcx", "r11"}
    /\ result = (IF raw >= 0 THEN Ok(raw) ELSE Err(-raw))

C4_Witness ==
  /\ pc = "returned"
  /\ exit["rcx"] # entry["rcx"]
  /\ exit["r11"] # entry["r11"]
  /\ exit["rcx"] # exit["rax"]
  /\ result.tag = "Ok"
  /\ result.val = raw

\* C5 as stated: whenever an entry point returns Err(c), c is the code of a
\* member of Errno.
C5_ErrIsErrnoMember ==
  (pc = "returned" /\ result.tag = "Err") =>
    result.val \in {Errno[m] : m \in DOMAIN Errno}

\* C5 as amended: whenever an entry point returns Err(c), c is the negation
\* of the raw value the kernel returned, so c >= 1; c is the code of a member
\* of Errno exactly when that raw value is the negation of one.
C5_ErrIsNegatedRaw ==
  (pc = "returned" /\ result.tag = "Err") =>
    /\ raw < 0
    /\ result.val = -raw
    /\ result.val >= 1
    /\ result.val <= -IsizeMin
    /\ (result.val \in {Errno[m] : m \in DOMAIN Errno}
          <=> \E m \in DOMAIN Errno : raw = -Errno[m])

C5_Witness ==
  pc = "returned" /\ raw = -41 /\ result.tag = "Err" /\ result.val = 41

\* C6: the codes of the members of Errno are exactly 1..133 without 41 and
\* 58, each the code of one member only; the members with the code of a
\* returned failure are exactly one for a code of that set and none otherwise.
C6_ErrnoBijection ==
  /\ {Errno[m] : m \in DOMAIN Errno} = (1 .. 133) \ {41, 58}
  /\ Cardinality(DOMAIN Errno) = Cardinality((1 .. 133) \ {41, 58})
  /\ (pc = "returned" /\ result.tag = "Err") =>
       Cardinality({m \in DOMAIN Errno : Errno[m] = result.val})
         = (IF result.val \in (1 .. 133) \ {41, 58} THEN 1 ELSE 0)

C6_Witness ==
  /\ pc = "returned"
  /\ result.tag = "Err"
  /\ result.val = 133
  /\ {m \in DOMAIN Errno : Errno[m] = result.val} = {"EHWPOISON"}

\* C7: EWOULDBLOCK is the member EAGAIN (code 11) and EDEADLOCK is the member
\* EDEADLK (code 35); neither name is a member of its own, and a returned
\* failure with either code is matched by the alias and its target alike.
C7_Aliases ==
  /\ EWOULDBLOCK = "EAGAIN"
  /\ Errno[EWOULDBLOCK] = 11
  /\ Errno["EAGAIN"] = 11
  /\ EDEADLOCK = "EDEADLK"
  /\ Errno[EDEADLOCK] = 35
  /\ Errno["EDEADLK"] = 35
  /\ {"EWOULDBLOCK", "EDEADLOCK"} \cap DOMAIN Errno = {}
  /\ (pc = "returned" /\ result.tag = "Err") =>
       /\ (result.val = Errno[EWOULDBLOCK] <=> result.val = Errno["EAGAIN"])
       /\ (result.val = Errno[EDEADLOCK] <=> result.val = Errno["EDEADLK"])

C7_Witness ==
  /\ pc = "returned"
  /\ result.tag = "Err"
  /\ result.val = Errno[EDEADLOCK]
  /\ {m \in DOMAIN Errno : Errno[m] = result.val} = {EDEADLOCK}

\* C8: an entry point of any arity called with a number the kernel does not
\* implement returns Err(38), the code of ENOSYS, whatever the arguments.
C8_UnknownNumberIsENOSYS ==
  (pc # "idle" /\ call.num \notin Implemented) =>
    (pc = "returned" /\ result.tag = "Err" /\ result.val = 38
       /\ result.val = Errno["ENOSYS"])

C8_Witness ==
  /\ pc = "returned"
  /\ call.arity = 6
  /\ call.num = UsizeMax
  /\ call.num \notin Implemented
  /\ result.tag = "Err"
  /\ result.val = 38

\* C9: `open` of the existing device (2 arguments, read-only) returns Ok(fd)
\* with fd a new descriptor; `read` (3 arguments) of n bytes from an open
\* descriptor into the buffer returns Ok(n) with exactly the first n bytes
\* of the buffer replaced by the device's zeros; `close` (1 argument) of an
\* open descriptor returns Ok(0) and the descriptor is closed.
C9_OpenReadClose ==
  [][ /\ (/\ pc = "idle" /\ pc' # "idle"
          /\ call'.arity = 2 /\ call'.num = SYS_open
          /\ call'.args = <<file_path_dev_zero, O_RDONLY>>)
        => /\ result'.tag = "Ok"
           /\ result'.val >= 0
           /\ result'.val \notin fds
           /\ fds' = fds \cup {result'.val}
           /\ buffer' = buffer
      /\ (/\ pc = "idle" /\ pc' # "idle"
          /\ call'.arity = 3 /\ call'.num = SYS_read
          /\ call'.args[1] \in fds
          /\ call'.args[2] = buffer_ptr
          /\ call'.args[3] <= BufLen)
        => /\ result'.tag = "Ok"
           /\ result'.val = call'.args[3]
           /\ buffer' = [i \in 1 .. BufLen |->
                           IF i <= call'.args[3] THEN 0 ELSE buffer[i]]
           /\ fds' = fds
      /\ (/\ pc = "idle" /\ pc' # "idle"
          /\ call'.arity = 1 /\ call'.num = SYS_close
          /\ call'.args[1] \in fds)
        => /\ result'.tag = "Ok"
           /\ result'.val = 0
           /\ fds' = fds \ {call'.args[1]}
           /\ buffer' = buffer
    ]_vars

C9_Witness ==
  /\ pc = "returned"
  /\ call.arity = 1
  /\ call.num = SYS_close
  /\ result.tag = "Ok"
  /\ result.val = 0
  /\ fds = {}
  /\ buffer = [i \in 1 .. BufLen |-> 0]

\* C10: `open` (2 arguments) of the path that does not exist returns Err(2),
\* the code of ENOENT, and opens no descriptor; the same call with the same
\* flags on the existing path returns Ok(fd) with fd an open descriptor.
C10_OpenMissingIsENOENT ==
  [][ (/\ pc = "idle" /\ pc' # "idle"
       /\ call'.arity = 2 /\ call'.num = SYS_open
       /\ call'.args[2] \in {O_RDONLY, flags})
      => /\ (call'.args[1] = file_path_not_exist =>
               /\ result'.tag = "Err"
               /\ result'.val = 2
               /\ result'.val = Errno["ENOENT"]
               /\ fds' = fds)
         /\ (call'.args[1] = file_path_dev_zero =>
               /\ result'.tag = "Ok"
               /\ result'.val > 0
               /\ result'.val \in fds'
               /\ result'.val \notin fds)
    ]_vars

C10_Witness ==
  /\ pc = "returned"
  /\ call.arity = 2
  /\ call.num = SYS_open
  /\ call.args = <<file_path_not_exist, flags>>
  /\ result.tag = "Err"
  /\ result.val = Errno["ENOENT"]
  /\ fds = {}

\* C11: every invocation of an entry point performs exactly one kernel
\* transition and then returns, and what it returns is the conversion of the
\* single raw value of that transition: Ok of the value when it is not
\* negative, Err of its negation when it is (-EINTR and -EAGAIN included),
\* with no second transition.  The transition is never re-issued, but the
\* invocation whose raw value is the minimum isize may panic in the
\* conversion (C2) and so not return.
C11_OneTransitionThenReturn ==
  pc # "idle" =>
    /\ pc = "returned"
    /\ transitions = 1
    /\ result = (IF raw >= 0 THEN Ok(raw) ELSE Err(-raw))

\* what remains of C11 away from the minimum isize: one transition, and the
\* conversion of its raw value delivered
C11_OneTransitionExceptAtMin ==
  (pc # "idle" /\ raw # IsizeMin) =>
    /\ pc = "returned"
    /\ transitions = 1
    /\ result = (IF raw >= 0 THEN Ok(raw) ELSE Err(-raw))

\* an invocation that received -EINTR and returned Err(EINTR) after a
\* single transition
C11_Witness ==
  /\ pc = "returned"
  /\ transitions = 1
  /\ raw = -4
  /\ result = Err(4)

\* the invocation of context c has run the number and the arguments its own
\* caller passed, and what it returned is the conversion of the raw value
\* of its own transition
OwnCallOnly(c) ==
  /\ c.pc # "idle" =>
        /\ c.entry["rax"] = c.call.num
        /\ \A i \in 1 .. Len(c.call.args) :
              c.entry[ArgRegisters[i]] = c.call.args[i]
  /\ c.pc \in {"trapped", "returned"} =>
        /\ c.transitions = 1
        /\ c.exit["rax"] = AsUsize(c.raw)
  /\ c.pc = "returned" =>
        c.result = (IF c.raw >= 0 THEN Ok(c.raw) ELSE Err(-c.raw))

\* C12: with several threads in entry points at once, interleaved at any
\* instruction, each thread's result is the conversion of the raw value the
\* kernel returned for that thread's own call; a step of one thread changes
\* nothing that belongs to another thread (its number, arguments, registers
\* or result), and a thread that is resumed finds what it left.
C12_ThreadsIndependent ==
  [][/\ \A t \in Threads :
          (t # cur \/ cur' # cur) => ContextOf(t)' = ContextOf(t)
     /\ \A t \in Threads : OwnCallOnly(ContextOf(t))']_vars

\* two threads inside entry points at once, each past its own transition:
\* the first has returned the error of its call while the second, suspended
\* after its `syscall` instruction, holds the success of a different call
C12_Witness ==
  /\ ContextOf(1).pc = "returned"
  /\ ContextOf(2).pc = "trapped"
  /\ ContextOf(1).raw < 0
  /\ ContextOf(1).result = Err(-ContextOf(1).raw)
  /\ ContextOf(2).raw > 0
  /\ ContextOf(1).call # ContextOf(2).call
  /\ cur = 1

====
